---- MODULE Spec2Model ----
(***************************************************************************)
(* State-machine model of src/server.js: the room registry, the socket.io  *)
(* event handlers (create_room, join_room, start_game, buzz_in,            *)
(* submit_answer, disconnect) and the deferred nextQuestion timers.        *)
(*                                                                         *)
(* One action is one handler run to completion (Node's single event loop). *)
(* Display metadata that the handlers only pass through (player name,      *)
(* avatar, question prompt and choices text) is left out of the records;   *)
(* Date.now() - questionStartTime is an input of submit_answer.            *)
(***************************************************************************)
EXTENDS Integers, Sequences, FiniteSets, Bags, TLC

(* ------------------------------- bounds -------------------------------- *)
\* client events and timer callbacks handled in one run of Spec
MaxEvents == 6
\* client events and timer callbacks handled in one run of SpecRound
MaxRoundEvents == 13
\* client events and timer callbacks handled in one run of SpecRegistry
MaxRegistryEvents == 6

(* --------------------------- program constants ------------------------- *)
RoundLength == 5
BasePoints == 100
BonusWindow == 15000
NoQuestion == 0

Null == "<null>"

\* socket ids in the order the transport hands them out; an id is never reused
SocketIds == <<"s1", "s2">>
\* codes generateRoomCode can return (two of its 90000)
Codes == {"COOL-1000", "FAST-2000"}
\* playerId strings clients send; the empty string is a legal Map key
PlayerIds == {"", "p1"}
Games == {"trivia"}
\* the first entries of the catalogue: index -> correct answer
triviaQuestions == <<[a |-> "2007"], [a |-> "Mercury"]>>
AnswerInputs == {"2007", "Mercury"}
\* Date.now() - room.questionStartTime, in milliseconds: samples around the
\* ends of the bonus window
Elapsed == {0, 1000, 14900, 15000, 16000}

(* ------------------------------- helpers ------------------------------- *)
Range(s) == {s[i] : i \in DOMAIN s}

\* String.prototype.toUpperCase on the room codes and a lower-case spelling of one
ToUpperCase(s) == IF s = "cool-1000" THEN "COOL-1000" ELSE s

\* JavaScript truthiness of a value that is null or a string
Truthy(v) == v # Null /\ v # ""

\* a scan in insertion order that stops at the first hit: the first index at
\* which the sequence of booleans hits is TRUE, else 0
FirstIndex(hits) ==
  IF \E i \in DOMAIN hits : hits[i]
  THEN CHOOSE i \in DOMAIN hits : hits[i] /\ \A j \in 1..(i - 1) : ~hits[j]
  ELSE 0

RemoveAt(s, i) == SubSeq(s, 1, i - 1) \o SubSeq(s, i + 1, Len(s))

(* ------------------------------- state --------------------------------- *)
VARIABLES
  rooms,      \* the registry Map, as the sequence of its values in insertion order
  timers,     \* bag of pending setTimeout callbacks [code, stale]; stale is history:
              \* the room the timer was scheduled for was deleted since
  connected,  \* sockets whose connection is open
  nextSocket, \* how many sockets have connected so far
  subs,       \* socket.join: set of <<socket, channel>>
  emitted,    \* messages sent by the last handler, in order
  last,       \* the event the last handler processed, a submit_answer with its
              \* answer and the time elapsed since the question started
  sched,      \* history: per code, advances scheduled for the current question (2 = two or more)
  closedPlayers, \* history: ids of the players of rooms closed by a host disconnect
  steps       \* history: events handled so far

vars == <<rooms, timers, connected, nextSocket, subs, emitted, last, sched, closedPlayers, steps>>

(* ----------------------------- the registry ---------------------------- *)
\* rooms.get(code): position of the room in the registry, 0 when absent
RoomIndex(rs, code) == FirstIndex([i \in DOMAIN rs |-> rs[i].code = code])

HasRoom(rs, code) == RoomIndex(rs, code) # 0

GetRoom(rs, code) == rs[RoomIndex(rs, code)]

\* rooms.set(code, room): a new key is appended, an existing key keeps its place
SetRoom(rs, room) ==
  IF HasRoom(rs, room.code)
  THEN [rs EXCEPT ![RoomIndex(rs, room.code)] = room]
  ELSE Append(rs, room)

\* room.players.has(playerId) / .get(playerId): position in the players Map
PlayerIndex(room, pid) == FirstIndex([i \in DOMAIN room.players |-> room.players[i].id = pid])

HasPlayer(room, pid) == PlayerIndex(room, pid) # 0

\* the scan "for (const [code, r] of rooms.entries()) if (r.players.has(playerId))"
FindRoomOfPlayer(rs, pid) == FirstIndex([i \in DOMAIN rs |-> HasPlayer(rs[i], pid)])

\* a players collection that never replaces an entry
SetPlayerAppend(players, player) == Append(players, player)

\* room.players.set(playerId, player)
SetPlayer(players, player) ==
  LET i == FirstIndex([k \in DOMAIN players |-> players[k].id = player.id])
  IN IF i # 0 THEN [players EXCEPT ![i] = player] ELSE Append(players, player)

(* ------------------------------ transport ------------------------------ *)
\* the sockets io.to(ch) reaches: the socket named ch and the sockets joined to ch
Members(ch, conn, sb) == {s \in conn : s = ch \/ <<s, ch>> \in sb}

Msg(to, ev, data) == [to |-> to, ev |-> ev, data |-> data]

LastEvent(ev, socket, roomCode, playerId) ==
  [ev |-> ev, socket |-> socket, roomCode |-> roomCode, playerId |-> playerId]

(* ------------------------------- history ------------------------------- *)
\* every pending timer of a code whose room is deleted is from then on stale
RECURSIVE MarkStale(_, _)
MarkStale(ts, codes) ==
  LET dom == BagToSet(ts)
      live == {t \in dom : t.code \in codes /\ ~t.stale}
  IN IF live = {} THEN ts
     ELSE LET t == CHOOSE x \in live : TRUE
              n == CopiesIn(t, ts)
              rest == [x \in dom \ {t} |-> ts[x]]
              moved == [code |-> t.code, stale |-> TRUE]
          IN MarkStale(rest (+) [x \in {moved} |-> n], codes)

(* -------------------------------- Init --------------------------------- *)
Init ==
  /\ rooms = <<>>
  /\ timers = EmptyBag
  /\ connected = {}
  /\ nextSocket = 0
  /\ subs = {}
  /\ emitted = <<>>
  /\ last = LastEvent("init", Null, Null, Null)
  /\ sched = [c \in Codes |-> 0]
  /\ closedPlayers = {}
  /\ steps = 0

(* ----------------------------- connection ------------------------------ *)
\* io.on('connection'): a socket with a fresh id
Connect ==
  /\ nextSocket < Len(SocketIds)
  /\ nextSocket' = nextSocket + 1
  /\ connected' = connected \cup {SocketIds[nextSocket + 1]}
  /\ emitted' = <<>>
  /\ last' = LastEvent("connection", SocketIds[nextSocket + 1], Null, Null)
  /\ UNCHANGED <<rooms, timers, subs, sched, closedPlayers>>

(* ----------------------------- create_room ----------------------------- *)
\* createRoom(hostSocketId) with the code generateRoomCode returned
NewRoom(code, hostSocketId) ==
  [code |-> code,
   host |-> hostSocketId,
   players |-> <<>>,
   gameState |-> "LOBBY",
   currentGame |-> Null,
   currentQuestion |-> NoQuestion,
   questionNumber |-> 0,
   buzzedPlayer |-> Null,
   answers |-> <<>>]

CreateRoom(socket, code) ==
  /\ socket \in connected
  /\ last' = LastEvent("create_room", socket, code, Null)
  /\ rooms' = SetRoom(rooms, NewRoom(code, socket))
  /\ subs' = subs \cup {<<socket, code>>}
  /\ emitted' = <<Msg({socket}, "create_room:callback", code)>>
  /\ sched' = [sched EXCEPT ![code] = 0]
  /\ UNCHANGED <<timers, connected, nextSocket, closedPlayers>>

(* ------------------------------ join_room ------------------------------ *)
\* the player object join_room builds (score: 0)
NewPlayer(playerId, socket) == [id |-> playerId, socketId |-> socket, score |-> 0]

\* rooms.get(roomCode.toUpperCase())
JoinLookup(roomCode) == ToUpperCase(roomCode)

\* socket.join(roomCode) and io.to(roomCode): the channel join_room addresses
JoinChannel(roomCode) == roomCode

JoinRoom(socket, roomCode, playerId) ==
  LET code == JoinLookup(roomCode) IN
  /\ socket \in connected
  /\ last' = LastEvent("join_room", socket, roomCode, playerId)
  /\ IF ~HasRoom(rooms, code)
     THEN /\ emitted' = <<Msg({socket}, "error", "Room not found")>>
          /\ UNCHANGED <<rooms, timers, connected, nextSocket, subs, sched, closedPlayers>>
     ELSE LET room == GetRoom(rooms, code)
              player == NewPlayer(playerId, socket)
              room2 == [room EXCEPT !.players = SetPlayer(room.players, player)]
              subs2 == subs \cup {<<socket, JoinChannel(roomCode)>>}
          IN /\ rooms' = SetRoom(rooms, room2)
             /\ subs' = subs2
             /\ emitted' =
                  << Msg(Members(room.host, connected, subs2), "player_joined", player),
                     Msg(Members(JoinChannel(roomCode), connected, subs2),
                         "player_list", room2.players),
                     Msg({socket}, "joined_room", room2.players) >>
             /\ UNCHANGED <<timers, connected, nextSocket, sched, closedPlayers>>

(* ------------------------------ start_game ----------------------------- *)
\* rooms.get(roomCode) of start_game: the code as sent
StartLookup(roomCode) == roomCode

\* start_game that only checks that the room exists
IsAuthorizedAnySocket(rs, roomCode, socket) == HasRoom(rs, StartLookup(roomCode))

\* the guard "!room || room.host !== socket.id" negated
IsAuthorized(rs, roomCode, socket) ==
  /\ HasRoom(rs, StartLookup(roomCode))
  /\ GetRoom(rs, StartLookup(roomCode)).host = socket

\* room.players.forEach(player => player.score = 0)
ResetScores(players) == [i \in DOMAIN players |-> [players[i] EXCEPT !.score = 0]]

\* a setTimeout(() => nextQuestion(roomCode), ...) callback
Timer(code) == [code |-> code, stale |-> FALSE]

StartGame(socket, roomCode, game) ==
  /\ socket \in connected
  /\ last' = LastEvent("start_game", socket, roomCode, Null)
  /\ IF ~IsAuthorized(rooms, roomCode, socket)
     THEN /\ emitted' = <<Msg({socket}, "error", "Not authorized")>>
          /\ UNCHANGED <<rooms, timers, connected, nextSocket, subs, sched, closedPlayers>>
     ELSE LET room == GetRoom(rooms, StartLookup(roomCode))
              room2 == [room EXCEPT !.currentGame = game,
                                    !.gameState = "PLAYING",
                                    !.questionNumber = 0,
                                    !.players = ResetScores(room.players)]
          IN /\ rooms' = SetRoom(rooms, room2)
             /\ emitted' = <<Msg(Members(roomCode, connected, subs), "game_started", game)>>
             /\ timers' = timers (+) SetToBag({Timer(roomCode)})
             /\ UNCHANGED <<connected, nextSocket, subs, sched, closedPlayers>>

(* ----------------------------- nextQuestion ---------------------------- *)
RECURSIVE InsertSorted(_, _)
\* insert p after every element whose score is not lower (stable, descending)
InsertSorted(sorted, p) ==
  IF sorted = <<>> THEN <<p>>
  ELSE IF Head(sorted).score >= p.score
       THEN <<Head(sorted)>> \o InsertSorted(Tail(sorted), p)
       ELSE <<p>> \o sorted

RECURSIVE SortByScore(_)
\* Array.from(players.values()).sort((a, b) => b.score - a.score): stable sort
SortByScore(players) ==
  IF players = <<>> THEN <<>>
  ELSE InsertSorted(SortByScore(SubSeq(players, 1, Len(players) - 1)),
                    players[Len(players)])

\* the test "room.questionNumber > 5" made after the increment
RoundOver(questionNumber) == questionNumber > RoundLength

\* a dispatch that sends every player the question as the host gets it
QuestionMessagesUnredacted(room, q, conn, sb) ==
  <<Msg(Members(room.host, conn, sb), "new_question",
        [questionNumber |-> room.questionNumber, question |-> q,
         a |-> triviaQuestions[q].a])>>
  \o [i \in DOMAIN room.players |->
        Msg(Members(room.players[i].socketId, conn, sb), "new_question",
            [questionNumber |-> room.questionNumber, question |-> q,
             a |-> triviaQuestions[q].a])]

\* the new_question messages: the full question to the host, the redacted one
\* to each player's socket
QuestionMessages(room, q, conn, sb) ==
  <<Msg(Members(room.host, conn, sb), "new_question",
        [questionNumber |-> room.questionNumber, question |-> q,
         a |-> triviaQuestions[q].a])>>
  \o [i \in DOMAIN room.players |->
        Msg(Members(room.players[i].socketId, conn, sb), "new_question",
            [questionNumber |-> room.questionNumber, question |-> q, a |-> Null])]

\* an advance that leaves the buzz of the previous question in place
AdvanceRoomKeepsBuzz(room, q) ==
  LET n == room.questionNumber + 1 IN
  IF RoundOver(n)
  THEN [room EXCEPT !.questionNumber = n, !.gameState = "ROUND_END"]
  ELSE [room EXCEPT !.questionNumber = n,
                    !.currentQuestion = q,
                    !.answers = <<>>]

\* the body of nextQuestion(roomCode) once the room was found; q is the
\* question getRandomQuestions(1)[0] drew
AdvanceRoom(room, q) ==
  LET n == room.questionNumber + 1 IN
  IF RoundOver(n)
  THEN [room EXCEPT !.questionNumber = n, !.gameState = "ROUND_END"]
  ELSE [room EXCEPT !.questionNumber = n,
                    !.currentQuestion = q,
                    !.buzzedPlayer = Null,
                    !.answers = <<>>]

NextQuestion(t, q) ==
  /\ BagIn(t, timers)
  /\ timers' = timers (-) SetToBag({t})
  /\ last' = LastEvent("timer", Null, t.code, Null)
  /\ IF ~HasRoom(rooms, t.code)
     THEN /\ emitted' = <<>>
          /\ UNCHANGED <<rooms, connected, nextSocket, subs, sched, closedPlayers>>
     ELSE LET room == GetRoom(rooms, t.code)
              room2 == AdvanceRoom(room, q)
          IN /\ rooms' = SetRoom(rooms, room2)
             /\ emitted' =
                  IF RoundOver(room2.questionNumber)
                  THEN <<Msg(Members(t.code, connected, subs), "round_end",
                             SortByScore(room2.players))>>
                  ELSE QuestionMessages(room2, q, connected, subs)
             /\ sched' = IF RoundOver(room2.questionNumber) THEN sched
                         ELSE [sched EXCEPT ![t.code] = 0]
             /\ UNCHANGED <<connected, nextSocket, subs, closedPlayers>>

(* ------------------------------- buzz_in ------------------------------- *)
\* the guard "room.buzzedPlayer" of "if (!room || room.buzzedPlayer) return"
BuzzLocked(room) == Truthy(room.buzzedPlayer)

BuzzIn(socket, playerId) ==
  LET i == FindRoomOfPlayer(rooms, playerId) IN
  /\ socket \in connected
  /\ last' = LastEvent("buzz_in", socket, Null, playerId)
  /\ IF i = 0 \/ BuzzLocked(rooms[i])
     THEN /\ emitted' = <<>>
          /\ UNCHANGED <<rooms, timers, connected, nextSocket, subs, sched, closedPlayers>>
     ELSE LET room == rooms[i] IN
          /\ rooms' = [rooms EXCEPT ![i].buzzedPlayer = playerId]
          /\ emitted' =
               << Msg(Members(room.code, connected, subs), "player_buzzed", playerId),
                  Msg(Members(room.host, connected, subs), "player_buzzed", playerId) >>
          /\ UNCHANGED <<timers, connected, nextSocket, subs, sched, closedPlayers>>

(* ---------------------------- submit_answer ---------------------------- *)
\* a score that counts whole seconds of the bonus only
PointsWholeSeconds(correct, timeElapsed) ==
  LET left == IF BonusWindow - timeElapsed > 0 THEN BonusWindow - timeElapsed ELSE 0
  IN IF correct THEN BasePoints + (left \div 1000) * 10 ELSE 0

\* timeBonus = Math.max(0, 15000 - timeElapsed) / 1000;
\* points = correct ? Math.floor(100 + timeBonus * 10) : 0
\* with timeBonus kept in thousandths (bonusMilli = timeBonus * 1000), which is
\* exact for whole milliseconds
Points(correct, timeElapsed) ==
  LET bonusMilli == IF BonusWindow - timeElapsed > 0 THEN BonusWindow - timeElapsed ELSE 0
  IN IF correct THEN (BasePoints * 1000 + bonusMilli * 10) \div 1000 ELSE 0

\* room.answers.set(playerId, record)
SetAnswer(answers, pid, rec) ==
  [p \in (DOMAIN answers) \cup {pid} |-> IF p = pid THEN rec ELSE answers[p]]

\* "room.buzzedPlayer === playerId || room.answers.size === room.players.size"
ShouldAdvance(room, playerId) ==
  \/ room.buzzedPlayer = playerId
  \/ Cardinality(DOMAIN room.answers) = Len(room.players)

\* the bookkeeping of submit_answer on its room (score, answers)
RecordAnswer(room, playerId, answer, timeElapsed) ==
  LET correct == answer = triviaQuestions[room.currentQuestion].a
      points == Points(correct, timeElapsed)
      j == PlayerIndex(room, playerId)
  IN [room EXCEPT !.players[j].score = IF correct THEN @ + points ELSE @,
                  !.answers = SetAnswer(@, playerId,
                                [answer |-> answer, correct |-> correct,
                                 points |-> points])]

SubmitAnswer(socket, playerId, answer, timeElapsed) ==
  LET i == FindRoomOfPlayer(rooms, playerId) IN
  /\ socket \in connected
  /\ last' = LastEvent("submit_answer", socket, Null, playerId)
              @@ [answer |-> answer, timeElapsed |-> timeElapsed]
  /\ IF i = 0 \/ rooms[i].currentQuestion = NoQuestion
     THEN /\ emitted' = <<>>
          /\ UNCHANGED <<rooms, timers, connected, nextSocket, subs, sched, closedPlayers>>
     ELSE LET room == rooms[i]
              room2 == RecordAnswer(room, playerId, answer, timeElapsed)
              rec == room2.answers[playerId]
              player == room2.players[PlayerIndex(room2, playerId)]
              advance == ShouldAdvance(room2, playerId)
          IN /\ rooms' = [rooms EXCEPT ![i] = room2]
             /\ emitted' =
                  << Msg({socket}, "answer_result",
                         [correct |-> rec.correct, points |-> rec.points,
                          correctAnswer |-> triviaQuestions[room.currentQuestion].a,
                          totalScore |-> player.score]),
                     Msg(Members(room.host, connected, subs), "answer_submitted",
                         [playerId |-> playerId, correct |-> rec.correct,
                          points |-> rec.points, answer |-> answer]) >>
             /\ timers' = IF advance THEN timers (+) SetToBag({Timer(room.code)})
                          ELSE timers
             /\ sched' = IF advance
                         THEN [sched EXCEPT ![room.code] = IF @ < 2 THEN @ + 1 ELSE @]
                         ELSE sched
             /\ UNCHANGED <<connected, nextSocket, subs, closedPlayers>>

(* ------------------------------ disconnect ----------------------------- *)
\* a disconnect handler that closes a hosted room only while it is in the lobby
ClosesRoomInLobby(room, socket) == room.host = socket /\ room.gameState = "LOBBY"

\* the test "room.host === socket.id"
ClosesRoom(room, socket) == room.host = socket

\* a removal that sends a room without players back to the lobby
RemovePlayerBackToLobby(room, j) ==
  LET left == RemoveAt(room.players, j)
  IN [room EXCEPT !.players = left,
                  !.gameState = IF left = <<>> THEN "LOBBY" ELSE @]

\* room.players.delete(playerId) for the player at position j
RemovePlayer(room, j) == [room EXCEPT !.players = RemoveAt(@, j)]

\* the loop over rooms.entries(): the registry afterwards, the messages sent and
\* the rooms closed.
\* A room the socket hosts is deleted; otherwise the first player with that
\* socketId is removed ("break").
RECURSIVE DisconnectScan(_, _, _, _, _)
DisconnectScan(rs, k, socket, conn, sb) ==
  IF k > Len(rs) THEN [rooms |-> <<>>, msgs |-> <<>>, closed |-> {}]
  ELSE
    LET room == rs[k]
        rest == DisconnectScan(rs, k + 1, socket, conn, sb)
        j == FirstIndex([i \in DOMAIN room.players |-> room.players[i].socketId = socket])
    IN IF ClosesRoom(room, socket)
       THEN [rooms |-> rest.rooms,
             msgs |-> <<Msg(Members(room.code, conn, sb), "room_closed", Null)>>
                      \o rest.msgs,
             closed |-> {room} \cup rest.closed]
       ELSE IF j # 0
       THEN [rooms |-> <<RemovePlayer(room, j)>> \o rest.rooms,
             msgs |-> <<Msg(Members(room.host, conn, sb), "player_left",
                            room.players[j].id)>> \o rest.msgs,
             closed |-> rest.closed]
       ELSE [rooms |-> <<room>> \o rest.rooms,
             msgs |-> rest.msgs,
             closed |-> rest.closed]

Disconnect(socket) ==
  LET conn2 == connected \ {socket}
      subs2 == {p \in subs : p[1] # socket}
      res == DisconnectScan(rooms, 1, socket, conn2, subs2)
  IN /\ socket \in connected
     /\ connected' = conn2
     /\ subs' = subs2
     /\ rooms' = res.rooms
     /\ emitted' = res.msgs
     /\ last' = LastEvent("disconnect", socket, Null, Null)
     /\ timers' = MarkStale(timers, {r.code : r \in res.closed})
     /\ sched' = [c \in Codes |-> IF c \in {r.code : r \in res.closed} THEN 0 ELSE sched[c]]
     /\ closedPlayers' = closedPlayers \cup
                           UNION {{p.id : p \in Range(r.players)} : r \in res.closed}
     /\ UNCHANGED nextSocket

(* -------------------------------- Next --------------------------------- *)
\* one more event is handled, of at most max in a run
Counted(max) == steps < max /\ steps' = steps + 1

\* the room code of Spec and SpecRound
OneCode == {"COOL-1000"}

\* One room code, every player id, question and answer: the round protocol.
Next ==
  \/ Connect /\ UNCHANGED steps
  \/ \E s \in connected, c \in OneCode : CreateRoom(s, c) /\ Counted(MaxEvents)
  \/ \E s \in connected, rc \in OneCode, p \in PlayerIds :
       JoinRoom(s, rc, p) /\ Counted(MaxEvents)
  \/ \E s \in connected, rc \in OneCode, g \in Games :
       StartGame(s, rc, g) /\ Counted(MaxEvents)
  \/ \E t \in BagToSet(timers), q \in DOMAIN triviaQuestions :
       NextQuestion(t, q) /\ Counted(MaxEvents)
  \/ \E s \in connected, p \in PlayerIds : BuzzIn(s, p) /\ Counted(MaxEvents)
  \/ \E s \in connected, p \in PlayerIds, a \in AnswerInputs, e \in {1000} :
       SubmitAnswer(s, p, a, e) /\ Counted(MaxEvents)
  \/ \E s \in connected : Disconnect(s) /\ Counted(MaxEvents)

Spec == Init /\ [][Next]_vars

\* One room code, one player id, question and answer, and generateRoomCode never
\* returning a code that is registered at that moment (a code is only reused
\* after its room was deleted): a whole round of questions.
NextRound ==
  \/ Connect /\ UNCHANGED steps
  \/ \E s \in connected, c \in OneCode :
       ~HasRoom(rooms, c) /\ CreateRoom(s, c) /\ Counted(MaxRoundEvents)
  \/ \E s \in connected, rc \in OneCode, p \in {"p1"} :
       JoinRoom(s, rc, p) /\ Counted(MaxRoundEvents)
  \/ \E s \in connected, rc \in OneCode, g \in Games :
       StartGame(s, rc, g) /\ Counted(MaxRoundEvents)
  \/ \E t \in BagToSet(timers), q \in {1} :
       NextQuestion(t, q) /\ Counted(MaxRoundEvents)
  \/ \E s \in connected, p \in {"p1"} : BuzzIn(s, p) /\ Counted(MaxRoundEvents)
  \/ \E s \in connected, p \in {"p1"}, a \in {"2007"}, e \in {1000} :
       SubmitAnswer(s, p, a, e) /\ Counted(MaxRoundEvents)
  \/ \E s \in connected : Disconnect(s) /\ Counted(MaxRoundEvents)

SpecRound == Init /\ [][NextRound]_vars

\* Two room codes, one player id, question and answer: the registry.
NextRegistry ==
  \/ Connect /\ UNCHANGED steps
  \/ \E s \in connected, c \in Codes : CreateRoom(s, c) /\ Counted(MaxRegistryEvents)
  \/ \E s \in connected, rc \in Codes, p \in {"p1"} :
       JoinRoom(s, rc, p) /\ Counted(MaxRegistryEvents)
  \/ \E s \in connected, rc \in Codes, g \in Games :
       StartGame(s, rc, g) /\ Counted(MaxRegistryEvents)
  \/ \E t \in BagToSet(timers), q \in {1} :
       NextQuestion(t, q) /\ Counted(MaxRegistryEvents)
  \/ \E s \in connected, p \in {"p1"} : BuzzIn(s, p) /\ Counted(MaxRegistryEvents)
  \/ \E s \in connected, p \in {"p1"}, a \in {"2007"}, e \in {1000} :
       SubmitAnswer(s, p, a, e) /\ Counted(MaxRegistryEvents)
  \/ \E s \in connected : Disconnect(s) /\ Counted(MaxRegistryEvents)

SpecRegistry == Init /\ [][NextRegistry]_vars

\* client events and timer callbacks handled in one run of SpecCase
MaxCaseEvents == 6

\* roomCode strings clients send: the code and a lower-case spelling of it
RoomCodeInputs == OneCode \cup {"cool-1000"}

\* One room code sent in either spelling, one player id, question and answer,
\* codes fresh as in SpecRound: the lookups by code.
NextCase ==
  \/ Connect /\ UNCHANGED steps
  \/ \E s \in connected, c \in OneCode :
       ~HasRoom(rooms, c) /\ CreateRoom(s, c) /\ Counted(MaxCaseEvents)
  \/ \E s \in connected, rc \in RoomCodeInputs, p \in {"p1"} :
       JoinRoom(s, rc, p) /\ Counted(MaxCaseEvents)
  \/ \E s \in connected, rc \in RoomCodeInputs, g \in Games :
       StartGame(s, rc, g) /\ Counted(MaxCaseEvents)
  \/ \E t \in BagToSet(timers), q \in {1} :
       NextQuestion(t, q) /\ Counted(MaxCaseEvents)
  \/ \E s \in connected, p \in {"p1"} : BuzzIn(s, p) /\ Counted(MaxCaseEvents)
  \/ \E s \in connected, p \in {"p1"}, a \in {"2007"}, e \in {1000} :
       SubmitAnswer(s, p, a, e) /\ Counted(MaxCaseEvents)
  \/ \E s \in connected : Disconnect(s) /\ Counted(MaxCaseEvents)

SpecCase == Init /\ [][NextCase]_vars

\* client events and timer callbacks handled in one run of SpecScore
MaxScoreEvents == 7

\* One connection that hosts the room and plays both player ids, every answer
\* and elapsed time: the scoring.
NextScore ==
  \/ Connect /\ nextSocket < 1 /\ UNCHANGED steps
  \/ \E s \in connected, c \in OneCode :
       ~HasRoom(rooms, c) /\ CreateRoom(s, c) /\ Counted(MaxScoreEvents)
  \/ \E s \in connected, rc \in OneCode, p \in PlayerIds :
       JoinRoom(s, rc, p) /\ Counted(MaxScoreEvents)
  \/ \E s \in connected, rc \in OneCode, g \in Games :
       StartGame(s, rc, g) /\ Counted(MaxScoreEvents)
  \/ \E t \in BagToSet(timers), q \in {1} :
       NextQuestion(t, q) /\ Counted(MaxScoreEvents)
  \/ \E s \in connected, p \in PlayerIds : BuzzIn(s, p) /\ Counted(MaxScoreEvents)
  \/ \E s \in connected, p \in PlayerIds, a \in AnswerInputs, e \in Elapsed :
       SubmitAnswer(s, p, a, e) /\ Counted(MaxScoreEvents)
  \/ \E s \in connected : Disconnect(s) /\ Counted(MaxScoreEvents)

SpecScore == Init /\ [][NextScore]_vars

\* client events and timer callbacks handled in one run of SpecAnswers
MaxAnswerEvents == 8

\* One room code, every player id, one question and answer, codes fresh as in
\* SpecRound: the answers of players that come and go.
NextAnswers ==
  \/ Connect /\ UNCHANGED steps
  \/ \E s \in connected, c \in OneCode :
       ~HasRoom(rooms, c) /\ CreateRoom(s, c) /\ Counted(MaxAnswerEvents)
  \/ \E s \in connected, rc \in OneCode, p \in PlayerIds :
       JoinRoom(s, rc, p) /\ Counted(MaxAnswerEvents)
  \/ \E s \in connected, rc \in OneCode, g \in Games :
       StartGame(s, rc, g) /\ Counted(MaxAnswerEvents)
  \/ \E t \in BagToSet(timers), q \in {1} :
       NextQuestion(t, q) /\ Counted(MaxAnswerEvents)
  \/ \E s \in connected, p \in PlayerIds : BuzzIn(s, p) /\ Counted(MaxAnswerEvents)
  \/ \E s \in connected, p \in PlayerIds, a \in {"2007"}, e \in {1000} :
       SubmitAnswer(s, p, a, e) /\ Counted(MaxAnswerEvents)
  \/ \E s \in connected : Disconnect(s) /\ Counted(MaxAnswerEvents)

SpecAnswers == Init /\ [][NextAnswers]_vars

\* client events handled in one run of SpecLive
MaxLiveEvents == 9

\* a pending setTimeout callback runs; timers are not client events
TimerFires ==
  \E t \in BagToSet(timers), q \in {1} : NextQuestion(t, q) /\ UNCHANGED steps

\* One connection that hosts the room and plays one player id, with the timers
\* outside the count of events: every timer set can fire.
NextLive ==
  \/ Connect /\ nextSocket < 1 /\ UNCHANGED steps
  \/ \E s \in connected, c \in OneCode :
       ~HasRoom(rooms, c) /\ CreateRoom(s, c) /\ Counted(MaxLiveEvents)
  \/ \E s \in connected, rc \in OneCode, p \in {"p1"} :
       JoinRoom(s, rc, p) /\ Counted(MaxLiveEvents)
  \/ \E s \in connected, rc \in OneCode, g \in Games :
       StartGame(s, rc, g) /\ Counted(MaxLiveEvents)
  \/ TimerFires
  \/ \E s \in connected, p \in {"p1"} : BuzzIn(s, p) /\ Counted(MaxLiveEvents)
  \/ \E s \in connected, p \in {"p1"}, a \in AnswerInputs, e \in {1000} :
       SubmitAnswer(s, p, a, e) /\ Counted(MaxLiveEvents)
  \/ \E s \in connected : Disconnect(s) /\ Counted(MaxLiveEvents)

\* Node runs every setTimeout callback whose delay has passed: a timer that
\* stays pending fires
SpecLive == Init /\ [][NextLive]_vars /\ WF_vars(TimerFires)

(* ======================================================================= *)
(*                                 Claims                                  *)
(* ======================================================================= *)
\* the room an event naming playerId resolves to, in the state before it
ResolvedRoom(pid) == rooms[FindRoomOfPlayer(rooms, pid)]

Resolves(pid) == FindRoomOfPlayer(rooms, pid) # 0

HasMessage(ev) == \E k \in DOMAIN emitted : emitted[k].ev = ev

\* C1: for each dispatched question exactly one advance is scheduled, whatever
\* submit_answer events arrive: after every accepted submit_answer the number
\* of advances scheduled for the question is at most one, and it is one as
\* soon as the buzzed player has submitted or, nobody having buzzed, all
\* players have submitted.
C1_ExactlyOneAdvance ==
  [][ (/\ last'.ev = "submit_answer"
       /\ Resolves(last'.playerId)
       /\ ResolvedRoom(last'.playerId).currentQuestion # NoQuestion)
      => LET i == FindRoomOfPlayer(rooms, last'.playerId)
             after == rooms'[i]
         IN /\ sched'[after.code] <= 1
            /\ ( \/ after.buzzedPlayer = last'.playerId
                 \/ /\ after.buzzedPlayer = Null
                    /\ \A j \in DOMAIN after.players :
                         after.players[j].id \in DOMAIN after.answers )
               => sched'[after.code] = 1 ]_vars

\* C2: buzz-lock: a buzz_in that resolves to a room whose buzzedPlayer is
\* already set (non-null) leaves the registry and the timers unchanged and
\* emits nothing.
C2_BuzzLock ==
  [][ (/\ last'.ev = "buzz_in"
       /\ Resolves(last'.playerId)
       /\ ResolvedRoom(last'.playerId).buzzedPlayer # Null)
      => /\ rooms' = rooms
         /\ timers' = timers
         /\ emitted' = <<>> ]_vars

\* C3: in every room, buzzedPlayer is null or the id of a player of the room.
C3_BuzzedPlayerIsPlayer ==
  \A i \in DOMAIN rooms :
    rooms[i].buzzedPlayer = Null \/ HasPlayer(rooms[i], rooms[i].buzzedPlayer)

\* C4: currentQuestion is non-null only while gameState is PLAYING with a
\* dispatched question pending; in particular, as checked here, it is null in
\* every room whose gameState is ROUND_END.
C4_NoQuestionAtRoundEnd ==
  \A i \in DOMAIN rooms :
    rooms[i].gameState = "ROUND_END" => rooms[i].currentQuestion = NoQuestion

\* C5: a start_game from a socket that is not the host of a room registered
\* under the code it names, and a join_room naming a code under which (case
\* ignored) no room is registered, emit one error to the sender only and leave
\* the registry, every room, the timers and the channels unchanged.
C5_ErrorPathsNoEffect ==
  [][ /\ (/\ last'.ev = "start_game"
           /\ ~\E i \in DOMAIN rooms :
                 rooms[i].code = last'.roomCode /\ rooms[i].host = last'.socket)
          => /\ emitted' = <<Msg({last'.socket}, "error", "Not authorized")>>
             /\ UNCHANGED <<rooms, timers, subs, connected>>
      /\ (/\ last'.ev = "join_room"
           /\ ~\E i \in DOMAIN rooms :
                 ToUpperCase(rooms[i].code) = ToUpperCase(last'.roomCode))
          => /\ emitted' = <<Msg({last'.socket}, "error", "Room not found")>>
             /\ UNCHANGED <<rooms, timers, subs, connected>> ]_vars

\* a non-host was refused start_game on a room that has a player and a game
\* under way
C5_Witness ==
  /\ last.ev = "start_game"
  /\ HasMessage("error")
  /\ \E i \in DOMAIN rooms :
       /\ rooms[i].code = last.roomCode
       /\ rooms[i].host # last.socket
       /\ rooms[i].players # <<>>
       /\ rooms[i].gameState = "PLAYING"
  /\ timers # EmptyBag

\* the effects of a host disconnect the claim C6 names: every room the socket
\* hosted is gone from the registry and room_closed went to its channel
HostDisconnectEffect ==
  last'.ev = "disconnect"
    => \A i \in DOMAIN rooms :
         rooms[i].host = last'.socket
           => /\ ~HasRoom(rooms', rooms[i].code)
              /\ \E k \in DOMAIN emitted' :
                   /\ emitted'[k].ev = "room_closed"
                   /\ emitted'[k].to = Members(rooms[i].code, connected', subs')

NoEffectNoMessage ==
  /\ emitted' = <<>>
  /\ UNCHANGED <<rooms, timers, subs, connected>>

\* C6 as stated: a host disconnect removes the room and sends room_closed to its
\* channel, and every later submit_answer or buzz_in naming a player of a room
\* closed that way changes no state and emits nothing.
C6_ClosedRoomPlayersInert ==
  [][ /\ HostDisconnectEffect
      /\ (/\ last'.ev \in {"submit_answer", "buzz_in"}
           /\ last'.playerId \in closedPlayers)
          => NoEffectNoMessage ]_vars

\* C6 as amended: a host disconnect removes the room and sends room_closed to
\* its channel, and every submit_answer or buzz_in naming a player id that is
\* in no registered room changes no state and emits nothing.
C6_HostDisconnectClosesRoom ==
  [][ /\ HostDisconnectEffect
      /\ (/\ last'.ev \in {"submit_answer", "buzz_in"}
           /\ ~\E i \in DOMAIN rooms : HasPlayer(rooms[i], last'.playerId))
          => NoEffectNoMessage ]_vars

\* a player of a room closed by its host's disconnect buzzed or answered, and no
\* room holds that player
C6_Witness ==
  /\ last.ev \in {"submit_answer", "buzz_in"}
  /\ last.playerId \in closedPlayers
  /\ ~\E i \in DOMAIN rooms : HasPlayer(rooms[i], last.playerId)
  /\ rooms # <<>>

\* C7: a deferred timer that fires after the room it was scheduled for was
\* deleted changes no room and emits no message.
C7_StaleTimerNoOp ==
  [][ (/\ last'.ev = "timer"
       /\ \E t \in BagToSet(timers) : t.stale /\ timers' = timers (-) SetToBag({t}))
      => /\ rooms' = rooms
         /\ emitted' = <<>> ]_vars

\* the step is an authorised start_game on the room registered under code
AuthorisedStart(code) ==
  /\ last'.ev = "start_game"
  /\ last'.roomCode = code
  /\ GetRoom(rooms, code).host = last'.socket

\* the step registers a new room under code
Creates(code) == last'.ev = "create_room" /\ last'.roomCode = code

\* C8: a player's score never decreases from one authorised start_game to the
\* next, whatever join_room, buzz_in, submit_answer, disconnect and timer events
\* occur, and an authorised start_game sets the score of every player to 0.
C8_ScoreMonotone ==
  [][ \A c \in Codes :
        (HasRoom(rooms, c) /\ HasRoom(rooms', c) /\ ~Creates(c))
        => LET before == GetRoom(rooms, c)
               after == GetRoom(rooms', c)
           IN IF AuthorisedStart(c)
              THEN \A j \in DOMAIN after.players : after.players[j].score = 0
              ELSE \A p \in PlayerIds :
                     (HasPlayer(before, p) /\ HasPlayer(after, p))
                     => after.players[PlayerIndex(after, p)].score
                          >= before.players[PlayerIndex(before, p)].score ]_vars

\* lb holds exactly the players of the room, ordered by non-increasing score
IsLeaderboard(lb, players) ==
  /\ Len(lb) = Len(players)
  /\ \A j \in DOMAIN players : \E k \in DOMAIN lb : lb[k] = players[j]
  /\ \A k \in 1..(Len(lb) - 1) : lb[k].score >= lb[k + 1].score

\* C9: every advance on a registered room either dispatches the next of the
\* questions 1..5 while gameState is and stays PLAYING, or, once 5 questions
\* were dispatched, sets gameState to ROUND_END, dispatches nothing and sends
\* round_end with all current players ordered by non-increasing score; and
\* gameState becomes ROUND_END in no other step.
C9_RoundEndAfterFive ==
  [][ \A c \in Codes :
        (HasRoom(rooms, c) /\ HasRoom(rooms', c) /\ ~Creates(c))
        => LET before == GetRoom(rooms, c)
               after == GetRoom(rooms', c)
           IN IF last'.ev = "timer" /\ last'.roomCode = c
              THEN IF before.questionNumber >= RoundLength
                   THEN /\ after.gameState = "ROUND_END"
                        /\ after.currentQuestion = before.currentQuestion
                        /\ Len(emitted') = 1
                        /\ emitted'[1].ev = "round_end"
                        /\ IsLeaderboard(emitted'[1].data, after.players)
                   ELSE /\ before.gameState = "PLAYING"
                        /\ after.gameState = "PLAYING"
                        /\ after.questionNumber = before.questionNumber + 1
                        /\ \A k \in DOMAIN emitted' : emitted'[k].ev = "new_question"
              ELSE after.gameState = "ROUND_END" => before.gameState = "ROUND_END" ]_vars

\* the change of the size of players in a step, for the room that stays
\* registered under code c; joinAdds(before, pid) is what a successful join adds
PlayersSizeStep(c, joinAdds(_, _)) ==
  LET before == GetRoom(rooms, c)
      after == GetRoom(rooms', c)
  IN IF last'.ev = "join_room" /\ ToUpperCase(last'.roomCode) = c
     THEN /\ Len(after.players) = Len(before.players) + joinAdds(before, last'.playerId)
          /\ \E k \in DOMAIN emitted' :
               emitted'[k].ev = "player_list" /\ emitted'[k].data = after.players
          /\ \A k \in DOMAIN emitted' :
               emitted'[k].ev = "player_list" => emitted'[k].data = after.players
     ELSE IF /\ last'.ev = "disconnect"
             /\ \E j \in DOMAIN before.players : before.players[j].socketId = last'.socket
     THEN Len(after.players) = Len(before.players) - 1
     ELSE Len(after.players) = Len(before.players)

\* C10 as stated: the size of players is the number of successful joins minus
\* the number of removals, step by step: every successful join_room raises it
\* by one, every removal of a player lowers it by one, nothing else changes it;
\* and the player_list of a join is the room's players.
C10_JoinsMinusRemovals ==
  [][ \A c \in Codes :
        (HasRoom(rooms, c) /\ HasRoom(rooms', c) /\ ~Creates(c))
        => PlayersSizeStep(c, LAMBDA before, pid : 1) ]_vars

\* C10 as amended: only a join_room naming a player id that is not yet in the
\* room raises the size by one; a join naming an id of the room replaces that
\* player and leaves the size unchanged.
C10_NewJoinsMinusRemovals ==
  [][ \A c \in Codes :
        (HasRoom(rooms, c) /\ HasRoom(rooms', c) /\ ~Creates(c))
        => PlayersSizeStep(c, LAMBDA before, pid :
                                IF HasPlayer(before, pid) THEN 0 ELSE 1) ]_vars

\* a join_room was served that named a player id already in the room: the room
\* holds two players and the joined id is the first of them (a new id is
\* appended), after some socket had disconnected
C10_Witness ==
  /\ last.ev = "join_room"
  /\ HasMessage("player_list")
  /\ connected # {SocketIds[k] : k \in 1..nextSocket}
  /\ \E i \in DOMAIN rooms :
       /\ rooms[i].code = ToUpperCase(last.roomCode)
       /\ Len(rooms[i].players) = 2
       /\ rooms[i].players[1].id = last.playerId

\* the positions of the rooms in which a player is recorded with this socket
RoomsOfSocket(socket) ==
  {i \in DOMAIN rooms :
     \E j \in DOMAIN rooms[i].players : rooms[i].players[j].socketId = socket}

\* C11: when a socket that hosts no room and is the connection of players in
\* one or more rooms disconnects, a player is removed from the first such room
\* (in registry order) only, every other room is left as it was, and exactly
\* one player_left is sent.
C11_FirstRoomOnly ==
  [][ (/\ last'.ev = "disconnect"
       /\ \A i \in DOMAIN rooms : rooms[i].host # last'.socket
       /\ RoomsOfSocket(last'.socket) # {})
      => LET hit == RoomsOfSocket(last'.socket)
             first == CHOOSE i \in hit : \A k \in hit : i <= k
         IN /\ Len(rooms') = Len(rooms)
            /\ \A i \in DOMAIN rooms : i # first => rooms'[i] = rooms[i]
            /\ Len(rooms'[first].players) = Len(rooms[first].players) - 1
            /\ Cardinality({k \in DOMAIN emitted' : emitted'[k].ev = "player_left"}) = 1
    ]_vars

\* C12: create_room allocates a code that is not in the registry at that
\* moment, so every room registered before is registered unchanged afterwards;
\* the new room has no players, is in LOBBY with questionNumber 0, and its
\* currentQuestion and buzzedPlayer are null.
C12_FreshCode ==
  [][ last'.ev = "create_room"
      => /\ ~HasRoom(rooms, last'.roomCode)
         /\ \A i \in DOMAIN rooms :
              /\ HasRoom(rooms', rooms[i].code)
              /\ GetRoom(rooms', rooms[i].code) = rooms[i]
         /\ LET room == GetRoom(rooms', last'.roomCode)
            IN /\ room.host = last'.socket
               /\ room.players = <<>>
               /\ room.gameState = "LOBBY"
               /\ room.questionNumber = 0
               /\ room.currentQuestion = NoQuestion
               /\ room.buzzedPlayer = Null ]_vars

\* C13: room lookup by code ignores letter case in every event that names a
\* room: a join_room whose roomCode equals a registered room's code up to case
\* adds the player to that room and subscribes the socket to the channel named
\* by the room's code (the one its host is on), and a start_game from the host
\* of such a room starts the game.
C13_CaseInsensitiveLookup ==
  [][ \A i \in DOMAIN rooms :
        ToUpperCase(last'.roomCode) = ToUpperCase(rooms[i].code)
        => /\ last'.ev = "join_room"
              => /\ HasPlayer(GetRoom(rooms', rooms[i].code), last'.playerId)
                 /\ <<last'.socket, rooms[i].code>> \in subs'
           /\ (last'.ev = "start_game" /\ rooms[i].host = last'.socket)
              => /\ GetRoom(rooms', rooms[i].code).gameState = "PLAYING"
                 /\ \E k \in DOMAIN emitted' : emitted'[k].ev = "game_started" ]_vars

\* the step is a submit_answer that passes the guard of the handler
AcceptedSubmit ==
  /\ last'.ev = "submit_answer"
  /\ Resolves(last'.playerId)
  /\ ResolvedRoom(last'.playerId).currentQuestion # NoQuestion

\* C14: with e the elapsed whole milliseconds (e >= 0), a correct
\* submit_answer records points = floor(100 + max(0, 15000 - e) / 100), which
\* is 240 at e = 1000, 100 for e >= 15000 and always in 100..250, and adds
\* exactly that to the player's score; an incorrect one records 0 points and
\* leaves the score unchanged; no other player's score changes.
C14_Scoring ==
  [][ AcceptedSubmit
      => LET i == FindRoomOfPlayer(rooms, last'.playerId)
             before == rooms[i]
             after == rooms'[i]
             j == PlayerIndex(before, last'.playerId)
             e == last'.timeElapsed
             rec == after.answers[last'.playerId]
             remaining == IF e < 15000 THEN 15000 - e ELSE 0
         IN /\ rec.correct = (last'.answer = triviaQuestions[before.currentQuestion].a)
            /\ rec.correct
                 => /\ rec.points = 100 + remaining \div 100
                    /\ rec.points \in 100..250
                    /\ e = 1000 => rec.points = 240
                    /\ e >= 15000 => rec.points = 100
            /\ ~rec.correct => rec.points = 0
            /\ Len(after.players) = Len(before.players)
            /\ after.players[j].score = before.players[j].score + rec.points
            /\ \A k \in DOMAIN before.players :
                 k # j => after.players[k] = before.players[k] ]_vars

\* a correct answer 14900 ms after the question started scored 101 points for
\* one of two players
C14_Witness ==
  /\ last.ev = "submit_answer"
  /\ last.timeElapsed = 14900
  /\ \E i \in DOMAIN rooms :
       /\ Len(rooms[i].players) = 2
       /\ last.playerId \in DOMAIN rooms[i].answers
       /\ rooms[i].answers[last.playerId].points = 101
       /\ rooms[i].players[PlayerIndex(rooms[i], last.playerId)].score = 101

\* the step is a timer that dispatched a question
Dispatch == last'.ev = "timer" /\ \E k \in DOMAIN emitted' : emitted'[k].ev = "new_question"

\* C15: on every question dispatch, a new_question that carries the correct
\* answer is addressed to the host's connection and to no other; every player
\* of the room is sent, at the player's own connection, a new_question without
\* the answer; and all of them carry the room's questionNumber and question.
C15_AnswerOnlyToHost ==
  [][ Dispatch
      => LET room == GetRoom(rooms', last'.roomCode)
         IN /\ \E k \in DOMAIN emitted' :
                 /\ emitted'[k].data.a = triviaQuestions[room.currentQuestion].a
                 /\ emitted'[k].to = {room.host} \cap connected'
            /\ \A k \in DOMAIN emitted' :
                 /\ emitted'[k].ev = "new_question"
                 /\ emitted'[k].data.questionNumber = room.questionNumber
                 /\ emitted'[k].data.question = room.currentQuestion
                 /\ emitted'[k].data.a # Null => emitted'[k].to \subseteq {room.host}
            /\ \A j \in DOMAIN room.players :
                 \E k \in DOMAIN emitted' :
                   /\ emitted'[k].data.a = Null
                   /\ emitted'[k].to = {room.players[j].socketId} \cap connected' ]_vars

\* a question was dispatched to a host and to a player on another connection
C15_Witness ==
  /\ last.ev = "timer"
  /\ \E k, m \in DOMAIN emitted :
       /\ emitted[k].ev = "new_question" /\ emitted[k].data.a # Null
       /\ emitted[m].ev = "new_question" /\ emitted[m].data.a = Null
       /\ emitted[k].to # {} /\ emitted[m].to # {}
       /\ emitted[m].to \cap emitted[k].to = {}

\* C16: in every room with a current question for which an answer has been
\* recorded, if every player now in the room has an answer recorded for that
\* question, an advance has been scheduled for it.
C16_AllAnsweredAdvances ==
  \A i \in DOMAIN rooms :
    (/\ rooms[i].currentQuestion # NoQuestion
     /\ DOMAIN rooms[i].answers # {}
     /\ \A j \in DOMAIN rooms[i].players :
          rooms[i].players[j].id \in DOMAIN rooms[i].answers)
    => sched[rooms[i].code] >= 1

\* no deferred advance is pending for the code
NoAdvancePending(ts, code) == \A t \in BagToSet(ts) : t.code # code

\* C17: once a question is dispatched in a room and no advance is pending for
\* it, every buzz_in, join_room, disconnect that leaves the room registered,
\* new connection and timer of another room leaves the room's questionNumber,
\* currentQuestion and gameState unchanged and leaves no advance pending: only
\* a submit_answer or a start_game can move the round on.
C17_StallsWithoutTrigger ==
  [][ \A c \in Codes :
        (/\ HasRoom(rooms, c) /\ HasRoom(rooms', c)
         /\ GetRoom(rooms, c).questionNumber >= 1
         /\ GetRoom(rooms, c).currentQuestion # NoQuestion
         /\ NoAdvancePending(timers, c)
         /\ last'.ev \in {"buzz_in", "join_room", "disconnect", "connection", "timer"})
        => /\ GetRoom(rooms', c).questionNumber = GetRoom(rooms, c).questionNumber
           /\ GetRoom(rooms', c).currentQuestion = GetRoom(rooms, c).currentQuestion
           /\ GetRoom(rooms', c).gameState = GetRoom(rooms, c).gameState
           /\ NoAdvancePending(timers', c) ]_vars

\* a player's connection was lost in a room whose question 1 is dispatched and
\* has no advance pending
C17_Witness ==
  /\ last.ev = "disconnect"
  /\ \E k \in DOMAIN emitted : emitted[k].ev = "player_left"
  /\ \E i \in DOMAIN rooms :
       /\ rooms[i].gameState = "PLAYING"
       /\ rooms[i].questionNumber = 1
       /\ rooms[i].currentQuestion # NoQuestion
       /\ NoAdvancePending(timers, rooms[i].code)

\* the last event was an authorised start_game on the room registered under c
Started(c) ==
  /\ last.ev = "start_game" /\ last.roomCode = c
  /\ \E k \in DOMAIN emitted : emitted[k].ev = "game_started"

\* the last event was an accepted submit_answer of the buzzed player of the
\* room registered under c, for question n
BuzzedSubmitted(c, n) ==
  /\ last.ev = "submit_answer"
  /\ \E k \in DOMAIN emitted : emitted[k].ev = "answer_result"
  /\ Resolves(last.playerId)
  /\ ResolvedRoom(last.playerId).code = c
  /\ ResolvedRoom(last.playerId).buzzedPlayer = last.playerId
  /\ ResolvedRoom(last.playerId).gameState = "PLAYING"
  /\ ResolvedRoom(last.playerId).questionNumber = n

\* question n is freshly dispatched in the room registered under c
Dispatched(c, n) ==
  /\ HasRoom(rooms, c)
  /\ GetRoom(rooms, c).questionNumber = n
  /\ GetRoom(rooms, c).currentQuestion # NoQuestion
  /\ GetRoom(rooms, c).buzzedPlayer = Null
  /\ GetRoom(rooms, c).answers = <<>>

RoundEnded(c) == HasRoom(rooms, c) /\ GetRoom(rooms, c).gameState = "ROUND_END"

\* what follows the buzzed player's answer to question n
Advanced(c, n) == IF n = RoundLength THEN RoundEnded(c) ELSE Dispatched(c, n + 1)

\* C18 as stated, under fair timers: after an authorised start_game question 1
\* is eventually dispatched unless the room is deleted first, and after the
\* buzzed player's answer to question n, question n+1 is eventually dispatched
\* (for n = 5 the round eventually ends) unless the room is deleted first.
C18_AdvanceEventually ==
  \A c \in OneCode :
    /\ Started(c) ~> (Dispatched(c, 1) \/ ~HasRoom(rooms, c))
    /\ \A n \in 1..RoundLength :
         BuzzedSubmitted(c, n) ~> (Advanced(c, n) \/ ~HasRoom(rooms, c))

\* C18 as amended: the same, unless the room is deleted or an authorised
\* start_game restarts its game first.
C18_AdvanceUnlessRestarted ==
  \A c \in OneCode :
    /\ Started(c) ~> (Dispatched(c, 1) \/ ~HasRoom(rooms, c))
    /\ \A n \in 1..RoundLength :
         BuzzedSubmitted(c, n) ~> (Advanced(c, n) \/ ~HasRoom(rooms, c) \/ Started(c))

\* the buzzed player has answered question 1 wrongly and the one advance that
\* answer scheduled is pending
C18_Witness ==
  /\ BuzzedSubmitted("COOL-1000", 1)
  /\ last.answer # triviaQuestions[GetRoom(rooms, "COOL-1000").currentQuestion].a
  /\ BagCardinality(timers) = 1
  /\ sched["COOL-1000"] = 1

\* C19: within one dispatched question a player's score increases at most
\* once: an accepted submit_answer of a player who already has an answer
\* recorded for the question overwrites that record and leaves the score as it
\* was.
C19_ScoreOncePerQuestion ==
  [][ (/\ AcceptedSubmit
       /\ last'.playerId \in DOMAIN ResolvedRoom(last'.playerId).answers)
      => LET i == FindRoomOfPlayer(rooms, last'.playerId)
             j == PlayerIndex(rooms[i], last'.playerId)
         IN /\ rooms'[i].answers[last'.playerId].answer = last'.answer
            /\ rooms'[i].players[j].score = rooms[i].players[j].score ]_vars

\* C20: a submit_answer changes scores only while gameState is PLAYING; in
\* particular, as checked here, a submit_answer that resolves to a room in
\* ROUND_END changes no score, records no answer and schedules no advance.
C20_NoScoringAtRoundEnd ==
  [][ (/\ last'.ev = "submit_answer"
       /\ Resolves(last'.playerId)
       /\ ResolvedRoom(last'.playerId).gameState = "ROUND_END")
      => /\ rooms' = rooms
         /\ timers' = timers ]_vars

====
